---- MODULE Spec2Model ----
(***************************************************************************)
(* Model of server.js: the in-memory session table (gameSessions) and the  *)
(* three handlers that touch it:                                            *)
(*   POST /api/create-session, POST /api/paypal-ipn (async: it suspends at  *)
(*   the two awaits of the verifier call), GET /api/check-continue/:token;  *)
(* and the two handlers that relay to the score store:                      *)
(*   GET /api/scores, POST /api/scores (async: they suspend at the awaits   *)
(*   of the store call).                                                    *)
(* Node runs handlers on one event loop: a handler runs uninterrupted from  *)
(* one await to the next, so every action below is one such segment.        *)
(***************************************************************************)
EXTENDS Integers, Sequences, FiniteSets, Bags

(***************************************************************************)
(* Bounds of the model.                                                     *)
(***************************************************************************)
MaxTokens == 2      \* number of distinct values randomBytes can return
MaxInFlight == 1    \* notification handlers suspended at an await at once
MaxOverlap == 2     \* the same, where the handlers are to overlap

(***************************************************************************)
(* JavaScript values of a request body.  A number is m * 10^(-e), kept      *)
(* normalised (e = 0 or m not a multiple of 10); a string is a sequence of  *)
(* one-character strings.                                                   *)
(***************************************************************************)
Undefined == [t |-> "undefined"]
Null == [t |-> "null"]
NaN == [t |-> "NaN"]
Num(m, e) == [t |-> "number", m |-> m, e |-> e]
Str(s) == [t |-> "string", s |-> s]
Bool(b) == [t |-> "boolean", b |-> b]

Digits == <<"0", "1", "2", "3", "4", "5", "6", "7", "8", "9">>
DigitChars == {"0", "1", "2", "3", "4", "5", "6", "7", "8", "9"}
IsDigit(c) == c \in DigitChars
DigitVal(c) ==
    CASE c = "0" -> 0 [] c = "1" -> 1 [] c = "2" -> 2 [] c = "3" -> 3 [] c = "4" -> 4
      [] c = "5" -> 5 [] c = "6" -> 6 [] c = "7" -> 7 [] c = "8" -> 8 [] c = "9" -> 9
WhiteSpace == {" ", "\t", "\n", "\r"}

RECURSIVE Pow10(_)
Pow10(n) == IF n = 0 THEN 1 ELSE 10 * Pow10(n - 1)

\* The value m * 10^(-e) in normal form.
RECURSIVE Normalise(_, _)
Normalise(m, e) ==
    IF e > 0 /\ m % 10 = 0 THEN Normalise(m \div 10, e - 1) ELSE Num(m, e)

\* Decimal digits of a natural number, most significant first.
RECURSIVE NatToDigits(_)
NatToDigits(n) ==
    IF n < 10 THEN <<Digits[n + 1]>>
    ELSE Append(NatToDigits(n \div 10), Digits[(n % 10) + 1])

\* The last e digits of n, padded with zeros on the left.
RECURSIVE FracDigits(_, _)
FracDigits(n, e) ==
    IF e = 0 THEN <<>> ELSE Append(FracDigits(n \div 10, e - 1), Digits[(n % 10) + 1])

Abs(n) == IF n < 0 THEN 0 - n ELSE n

\* ToString of the values that reach parseInt and parseFloat.  Numbers are
\* printed in plain decimal notation, which is what JavaScript prints for
\* magnitudes in [1e-6, 1e21).
JsToString(v) ==
    CASE v.t = "string" -> v.s
      [] v.t = "undefined" -> <<"u", "n", "d", "e", "f", "i", "n", "e", "d">>
      [] v.t = "null" -> <<"n", "u", "l", "l">>
      [] v.t = "NaN" -> <<"N", "a", "N">>
      [] v.t = "number" ->
            (IF v.m < 0 THEN <<"-">> ELSE <<>>)
            \o NatToDigits(Abs(v.m) \div Pow10(v.e))
            \o (IF v.e = 0 THEN <<>> ELSE <<".">> \o FracDigits(Abs(v.m), v.e))

\* ToBoolean, as `!x` applies it.
Truthy(v) ==
    CASE v.t = "string" -> Len(v.s) > 0
      [] v.t = "number" -> v.m # 0
      [] OTHER -> FALSE

RECURSIVE TrimStart(_)
TrimStart(s) ==
    IF s # <<>> /\ Head(s) \in WhiteSpace THEN TrimStart(Tail(s)) ELSE s

\* Length of the longest prefix of s made of decimal digits.
RECURSIVE DigitRun(_)
DigitRun(s) ==
    IF s # <<>> /\ IsDigit(Head(s)) THEN 1 + DigitRun(Tail(s)) ELSE 0

\* Value of a sequence of decimal digits (0 for the empty sequence).
RECURSIVE DigitsToNat(_)
DigitsToNat(s) ==
    IF s = <<>> THEN 0
    ELSE 10 * DigitsToNat(SubSeq(s, 1, Len(s) - 1)) + DigitVal(s[Len(s)])

Drop(s, n) == SubSeq(s, n + 1, Len(s))

\* An optional sign in front of a numeric literal.
SignOf(S) == IF S # <<>> /\ Head(S) = "-" THEN 0 - 1 ELSE 1
Unsigned(S) == IF S # <<>> /\ Head(S) \in {"+", "-"} THEN Tail(S) ELSE S

\* parseInt(v, 10): ToString, skip leading white space, an optional sign, then
\* the longest run of decimal digits; NaN when that run is empty.
parseInt(v) ==
    LET S == TrimStart(JsToString(v))
        R == Unsigned(S)
        n == DigitRun(R)
    IN  IF n = 0 THEN NaN ELSE Num(SignOf(S) * DigitsToNat(SubSeq(R, 1, n)), 0)

\* The unsigned decimal literal at the front of R: integer digits, then a dot
\* with fraction digits ("1." and ".5" are literals, "." is not).  ok: there is
\* one; digits: its digits without the dot; places: how many of them follow
\* the dot; rest: what follows the literal.
DecimalParts(R) ==
    LET ni == DigitRun(R)
        hasDot == Len(R) > ni /\ R[ni + 1] = "."
        nf == IF hasDot THEN DigitRun(Drop(R, ni + 1)) ELSE 0
        dotTaken == hasDot /\ (ni > 0 \/ nf > 0)
    IN  [ ok |-> ni > 0 \/ dotTaken,
          digits |-> SubSeq(R, 1, ni)
                     \o (IF dotTaken THEN SubSeq(R, ni + 2, ni + 1 + nf) ELSE <<>>),
          places |-> IF dotTaken THEN nf ELSE 0,
          rest |-> Drop(R, IF dotTaken THEN ni + 1 + nf ELSE ni) ]

\* The exponent part at the front of E: e or E, an optional sign, digits.
Exponent(E) ==
    IF E # <<>> /\ Head(E) \in {"e", "E"}
    THEN LET X == Unsigned(Tail(E))
             n == DigitRun(X)
         IN  IF n > 0 THEN SignOf(Tail(E)) * DigitsToNat(SubSeq(X, 1, n)) ELSE 0
    ELSE 0

\* The number mant * 10^(-places).
Scale(mant, places) ==
    IF places >= 0 THEN Normalise(mant, places) ELSE Num(mant * Pow10(0 - places), 0)

\* parseFloat(v): ToString, skip leading white space, then the longest prefix
\* that is a decimal literal: sign, digits, fraction, exponent; NaN when there
\* is none.  ("Infinity" is not among the strings the model posts.)
parseFloat(v) ==
    LET S == TrimStart(JsToString(v))
        p == DecimalParts(Unsigned(S))
    IN  IF ~p.ok THEN NaN
        ELSE Scale(SignOf(S) * DigitsToNat(p.digits), p.places - Exponent(p.rest))

\* JSON.stringify of a number, as res.json sends it: NaN becomes null.
JsonNumber(v) == IF v.t = "NaN" THEN Null ELSE v

\* a === b
StrictEquals(a, b) == a = b /\ a.t # "NaN"

(***************************************************************************)
(* Session tokens.  crypto.randomBytes(32).toString('hex') is 64 hex       *)
(* digits; the model scales it to one byte, two hex digits, of which       *)
(* MaxTokens values occur.                                                  *)
(***************************************************************************)
HexDigits == <<"0", "1", "2", "3", "4", "5", "6", "7", "8", "9",
               "a", "b", "c", "d", "e", "f">>
toStringHex(byte) == <<HexDigits[(byte \div 16) + 1], HexDigits[(byte % 16) + 1]>>
Tokens == {toStringHex(b) : b \in 0..(MaxTokens - 1)}
\* A well-formed token that randomBytes never returns in the model.
ForgedToken == toStringHex(255)

\* A generator that may return a value it returned before.
randomBytes_Repeat(sessions) == Tokens
\* The values a call of randomBytes can return when `sessions` is the table.
\* 256 random bits are modelled as a nonce: a value not seen before.
randomBytes(sessions) == Tokens \ DOMAIN sessions

(***************************************************************************)
(* Requests.                                                                *)
(***************************************************************************)
\* req.body.level of POST /api/create-session
LevelInputs ==
    { Undefined, Num(0, 0), Num(2, 0) }

Completed == Str(<<"C", "o", "m", "p", "l", "e", "t", "e", "d">>)
Pending == Str(<<"P", "e", "n", "d", "i", "n", "g">>)
USD == Str(<<"U", "S", "D">>)
EUR == Str(<<"E", "U", "R">>)
Price == Num(199, 2)

\* mc_gross values that denote the price, and values that do not
PriceInputs == { Str(<<"1", ".", "9", "9">>), Str(<<"1", ".", "9", "9", "0">>) }
OtherAmountInputs == { Str(<<"2", ".", "0", "0">>) }

CustomInputs == {Str(tok) : tok \in Tokens} \cup {Undefined}

\* req.body of POST /api/paypal-ipn
IpnInputs ==
    { d \in [ payment_status : {Completed, Pending},
              mc_gross : PriceInputs \cup OtherAmountInputs,
              mc_currency : {USD, EUR},
              custom : CustomInputs ] :
        /\ d.mc_currency = EUR => d.mc_gross = Str(<<"1", ".", "9", "9">>)
        /\ d.payment_status = Pending =>
              d.mc_currency = USD /\ d.mc_gross # Str(<<"1", ".", "9", "9", "0">>) }

\* what verificationResponse.text() can resolve to
VerifierReplies == {"VERIFIED", "INVALID", "VERIFIED\n"}

\* req.params.token of GET /api/check-continue/:token
TokenInputs == Tokens \cup {ForgedToken}

(***************************************************************************)
(* State.                                                                   *)
(***************************************************************************)
VARIABLES
    gameSessions,   \* the Map: token -> [level, hasPurchasedContinue]
    pending,        \* bag of notification handlers suspended at an await
    last,           \* the latest response sent, with what it answers
    issued          \* history: the tokens sent to clients by create-session

vars == <<gameSessions, pending, last, issued>>

\* `reply` of a response that follows no verifier reply
NoReply == "(none)"

\* `calls` is the number of outbound calls the answered request issued,
\* `req` the body of the request and `sent` the body it forwarded.
NoResponse ==
    [op |-> "none", status |-> 0, body |-> "", level |-> Undefined,
     token |-> Undefined, purchased |-> FALSE, reply |-> NoReply,
     calls |-> 0, req |-> Undefined, sent |-> Undefined]

Response(op, status, body) == [NoResponse EXCEPT !.op = op, !.status = status, !.body = body]

\* Map.prototype.set
MapSet(map, key, value) ==
    [k \in (DOMAIN map) \cup {key} |-> IF k = key THEN value ELSE map[k]]

\* Map.prototype.has: keys are strings
MapHas(map, key) == key.t = "string" /\ key.s \in DOMAIN map

Init ==
    /\ gameSessions = <<>>
    /\ pending = EmptyBag
    /\ last = NoResponse
    /\ issued = {}

(***************************************************************************)
(* POST /api/create-session                                                 *)
(***************************************************************************)
\* the presence check `!level`
LevelMissing(level) == ~Truthy(level)

NewSession(level) == [level |-> parseInt(level), hasPurchasedContinue |-> FALSE]

CreateSession(level) ==
    IF LevelMissing(level)
    THEN /\ last' = [Response("create-session", 400, "Level is required")
                        EXCEPT !.level = level]
         /\ UNCHANGED <<gameSessions, pending, issued>>
    ELSE \E sessionToken \in randomBytes(gameSessions) :
            /\ gameSessions' = MapSet(gameSessions, sessionToken, NewSession(level))
            /\ last' = [Response("create-session", 200, "")
                           EXCEPT !.level = level, !.token = Str(sessionToken)]
            /\ issued' = issued \cup {sessionToken}
            /\ UNCHANGED pending

(***************************************************************************)
(* GET /api/check-continue/:token                                           *)
(***************************************************************************)
\* A lookup that answers an unknown token with a default session.
CheckContinueResponse_Default(sessions, token) ==
    IF ~Truthy(Str(token)) \/ ~MapHas(sessions, Str(token))
    THEN [Response("check-continue", 200, "")
             EXCEPT !.token = Str(token), !.level = Num(0, 0)]
    ELSE [Response("check-continue", 200, "")
             EXCEPT !.token = Str(token),
                    !.purchased = sessions[token].hasPurchasedContinue,
                    !.level = JsonNumber(sessions[token].level)]

\* The response to a check of `token` when `sessions` is the table.
CheckContinueResponse(sessions, token) ==
    IF ~Truthy(Str(token)) \/ ~MapHas(sessions, Str(token))
    THEN [Response("check-continue", 404, "Session not found") EXCEPT !.token = Str(token)]
    ELSE [Response("check-continue", 200, "")
             EXCEPT !.token = Str(token),
                    !.purchased = sessions[token].hasPurchasedContinue,
                    !.level = JsonNumber(sessions[token].level)]

\* A check that removes the session it has reported (the cleanup the source
\* keeps commented out).
CheckContinue_Cleanup(token) ==
    /\ last' = CheckContinueResponse(gameSessions, token)
    /\ gameSessions' = [k \in (DOMAIN gameSessions) \ {token} |-> gameSessions[k]]
    /\ UNCHANGED <<pending, issued>>

CheckContinue(token) ==
    /\ last' = CheckContinueResponse(gameSessions, token)
    /\ UNCHANGED <<gameSessions, pending, issued>>

(***************************************************************************)
(* POST /api/paypal-ipn                                                     *)
(***************************************************************************)
\* A handler suspended at `pc`, having issued its fetch: one outbound call.
Handler(pc, ipnData) == [pc |-> pc, ipnData |-> ipnData, calls |-> 1]
One(h) == SetToBag({h})

\* The handler runs up to `await fetch(...)`.
IpnReceive(ipnData) ==
    /\ BagCardinality(pending) < MaxInFlight
    /\ pending' = pending (+) One(Handler("fetch", ipnData))
    /\ UNCHANGED <<gameSessions, last, issued>>

\* fetch resolves; the handler runs up to `await verificationResponse.text()`.
IpnFetchResolved(h) ==
    /\ h.pc = "fetch"
    /\ pending' = (pending (-) One(h)) (+) One([h EXCEPT !.pc = "text"])
    /\ UNCHANGED <<gameSessions, last, issued>>

\* A catch block that reports success.
IpnCatch_Ok == Response("paypal-ipn", 200, "OK")

\* The catch block.
IpnCatch == Response("paypal-ipn", 500, "Server Error")

\* A handler that calls the verifier a second time when the first call fails.
IpnFetchRejected_Retry(h) ==
    /\ h.pc = "fetch"
    /\ IF h.calls < 2
       THEN /\ pending' = (pending (-) One(h)) (+) One([h EXCEPT !.calls = h.calls + 1])
            /\ UNCHANGED last
       ELSE /\ pending' = pending (-) One(h)
            /\ last' = [IpnCatch EXCEPT !.calls = h.calls]
    /\ UNCHANGED <<gameSessions, issued>>

\* fetch rejects (network failure): the catch block answers.
IpnFetchRejected(h) ==
    /\ h.pc = "fetch"
    /\ pending' = pending (-) One(h)
    /\ last' = [IpnCatch EXCEPT !.calls = h.calls]
    /\ UNCHANGED <<gameSessions, issued>>

\* text() rejects (the reply cannot be read): the catch block answers.
IpnTextRejected(h) ==
    /\ h.pc = "text"
    /\ pending' = pending (-) One(h)
    /\ last' = [IpnCatch EXCEPT !.calls = h.calls]
    /\ UNCHANGED <<gameSessions, issued>>

\* A comparison that only rejects the reply INVALID.
Verified_NotInvalid(verificationResult) == verificationResult # "INVALID"

Verified(verificationResult) == verificationResult = "VERIFIED"

\* A handler without the payment_status check.
PaymentCompleted_Any(ipnData) == TRUE

PaymentCompleted(ipnData) == StrictEquals(ipnData.payment_status, Completed)

\* A check of the currency alone.
AmountAndCurrencyOk_CurrencyOnly(ipnData) ==
    ~(~StrictEquals(ipnData.mc_currency, USD))

AmountAndCurrencyOk(ipnData) ==
    ~(~StrictEquals(ipnData.mc_currency, USD)
        \/ ~StrictEquals(parseFloat(ipnData.mc_gross), Price))

SessionTokenOk(sessions, sessionToken) ==
    ~(~Truthy(sessionToken) \/ ~MapHas(sessions, sessionToken))

\* A grant that writes nothing.
Grant_Nothing(sessions, token) == sessions

\* A grant that stores a new session object holding the flag alone.
Grant_NewObject(sessions, token) ==
    MapSet(sessions, token, [level |-> Undefined, hasPurchasedContinue |-> TRUE])

\* A grant that flips the flag.
Grant_Toggle(sessions, token) ==
    MapSet(sessions, token,
           [sessions[token] EXCEPT !.hasPurchasedContinue = ~sessions[token].hasPurchasedContinue])

\* Step 6: sessionData.hasPurchasedContinue = true; gameSessions.set(...)
Grant(sessions, token) ==
    MapSet(sessions, token, [sessions[token] EXCEPT !.hasPurchasedContinue = TRUE])

\* The checks with an unknown session answered 200 like the other rejections.
IpnOutcome_SilentInvalidSession(sessions, ipnData, verificationResult) ==
    IF ~Verified(verificationResult)
    THEN [status |-> 400, body |-> "IPN Verification Failed", sessions |-> sessions]
    ELSE IF ~PaymentCompleted(ipnData)
    THEN [status |-> 200, body |-> "Payment not completed", sessions |-> sessions]
    ELSE IF ~AmountAndCurrencyOk(ipnData)
    THEN [status |-> 200, body |-> "Invalid payment amount or currency",
          sessions |-> sessions]
    ELSE IF ~SessionTokenOk(sessions, ipnData.custom)
    THEN [status |-> 200, body |-> "Invalid session", sessions |-> sessions]
    ELSE [status |-> 200, body |-> "OK", sessions |-> Grant(sessions, ipnData.custom.s)]

\* The checks with the session token validated first.
IpnOutcome_TokenFirst(sessions, ipnData, verificationResult) ==
    IF ~Verified(verificationResult)
    THEN [status |-> 400, body |-> "IPN Verification Failed", sessions |-> sessions]
    ELSE IF ~SessionTokenOk(sessions, ipnData.custom)
    THEN [status |-> 400, body |-> "Invalid session", sessions |-> sessions]
    ELSE IF ~PaymentCompleted(ipnData)
    THEN [status |-> 200, body |-> "Payment not completed", sessions |-> sessions]
    ELSE IF ~AmountAndCurrencyOk(ipnData)
    THEN [status |-> 200, body |-> "Invalid payment amount or currency",
          sessions |-> sessions]
    ELSE [status |-> 200, body |-> "OK", sessions |-> Grant(sessions, ipnData.custom.s)]

\* The checks with a grant that creates the session when the table has none.
IpnOutcome_Upsert(sessions, ipnData, verificationResult) ==
    IF ~Verified(verificationResult)
    THEN [status |-> 400, body |-> "IPN Verification Failed", sessions |-> sessions]
    ELSE IF ~PaymentCompleted(ipnData)
    THEN [status |-> 200, body |-> "Payment not completed", sessions |-> sessions]
    ELSE IF ~AmountAndCurrencyOk(ipnData)
    THEN [status |-> 200, body |-> "Invalid payment amount or currency",
          sessions |-> sessions]
    ELSE IF ~Truthy(ipnData.custom)
    THEN [status |-> 400, body |-> "Invalid session", sessions |-> sessions]
    ELSE IF ~MapHas(sessions, ipnData.custom)
    THEN [status |-> 200, body |-> "OK",
          sessions |-> MapSet(sessions, ipnData.custom.s,
                              [level |-> Num(1, 0), hasPurchasedContinue |-> TRUE])]
    ELSE [status |-> 200, body |-> "OK", sessions |-> Grant(sessions, ipnData.custom.s)]

\* Everything after the two awaits: what is answered and what the table becomes.
IpnOutcome(sessions, ipnData, verificationResult) ==
    IF ~Verified(verificationResult)
    THEN [status |-> 400, body |-> "IPN Verification Failed", sessions |-> sessions]
    ELSE IF ~PaymentCompleted(ipnData)
    THEN [status |-> 200, body |-> "Payment not completed", sessions |-> sessions]
    ELSE IF ~AmountAndCurrencyOk(ipnData)
    THEN [status |-> 200, body |-> "Invalid payment amount or currency",
          sessions |-> sessions]
    ELSE IF ~SessionTokenOk(sessions, ipnData.custom)
    THEN [status |-> 400, body |-> "Invalid session", sessions |-> sessions]
    ELSE [status |-> 200, body |-> "OK", sessions |-> Grant(sessions, ipnData.custom.s)]

\* text() resolves; the handler runs to its response.
IpnTextResolved(h, verificationResult) ==
    /\ h.pc = "text"
    /\ LET out == IpnOutcome(gameSessions, h.ipnData, verificationResult)
       IN  /\ gameSessions' = out.sessions
           /\ last' = [Response("paypal-ipn", out.status, out.body)
                          EXCEPT !.reply = verificationResult, !.calls = h.calls]
    /\ pending' = pending (-) One(h)
    /\ UNCHANGED issued

Next ==
    \/ \E level \in LevelInputs : CreateSession(level)
    \/ \E token \in TokenInputs : CheckContinue(token)
    \/ \E ipnData \in IpnInputs : IpnReceive(ipnData)
    \/ \E h \in BagToSet(pending) : IpnFetchResolved(h)
    \/ \E h \in BagToSet(pending) : IpnFetchRejected(h)
    \/ \E h \in BagToSet(pending) : IpnTextRejected(h)
    \/ \E h \in BagToSet(pending), r \in VerifierReplies : IpnTextResolved(h, r)

Spec == Init /\ [][Next]_vars

(***************************************************************************)
(* The session handlers alone, posted every kind of level a JSON body can  *)
(* hold: absent, null, numbers (zero, positive, negative, fractional) and  *)
(* strings (empty, numeric, signed, not numeric).                           *)
(***************************************************************************)
AnyLevelInputs ==
    LevelInputs
    \cup { Null, Num(7, 0), Num(0 - 1, 0), Num(15, 1), Num(0 - 25, 1),
           Str(<<>>), Str(<<"3">>), Str(<<"-", "3">>), Str(<<"x">>),
           Str(<<"4", "x">>) }

NextLevels ==
    \/ \E level \in AnyLevelInputs : CreateSession(level)
    \/ \E token \in TokenInputs : CheckContinue(token)

SpecLevels == Init /\ [][NextLevels]_vars

(***************************************************************************)
(* GET /api/scores and POST /api/scores: each forwards one request to the   *)
(* score store and relays the reply.  Their handlers are suspended in the   *)
(* same bag as the notification handlers, told apart by pc.                 *)
(***************************************************************************)
\* req.body of POST /api/scores
ScoreInputs == { Undefined, Num(0, 0), Num(100, 0) }
PlayerNameInputs == { Undefined, Str(<<"a", "c", "e">>) }
ScoreLevelInputs == { Undefined, Num(0, 0), Num(3, 0) }
ScoreBodies ==
    [score : ScoreInputs, player_name : PlayerNameInputs, level : ScoreLevelInputs]

\* what the store call of an answered request came to
StoreOk == "store: ok"
StoreStatus == "store: status is not a success"
StoreFailed == "store: fetch rejected"
StoreUnreadable == "store: body unreadable"

\* a || b
Or(a, b) == IF Truthy(a) THEN a ELSE b

\* the presence check `!score || !player_name`
ScoreFieldsMissing(body) == ~Truthy(body.score) \/ ~Truthy(body.player_name)

\* The object given to JSON.stringify as the body of the store request.
StoreRecord(body) ==
    [score |-> body.score, player_name |-> body.player_name,
     level |-> Or(body.level, Num(1, 0))]

\* A handler suspended at `pc`, having issued its fetch: one outbound call.
\* ok is response.ok once fetch has resolved.
ScoreHandler(pc, req, sent) ==
    [pc |-> pc, calls |-> 1, req |-> req, sent |-> sent, ok |-> Undefined]

\* how the store call of h went, for a handler whose fetch resolved
StoreOutcome(h) == IF h.ok = Bool(TRUE) THEN StoreOk ELSE StoreStatus

Answer(response, h, reply) ==
    [response EXCEPT !.calls = h.calls, !.req = h.req, !.sent = h.sent, !.reply = reply]

\* GET /api/scores runs up to `await fetch(...)`.
ListScoresReceive ==
    /\ BagCardinality(pending) < MaxInFlight
    /\ pending' = pending (+) One(ScoreHandler("list-fetch", Undefined, Undefined))
    /\ UNCHANGED <<gameSessions, last, issued>>

\* A catch block that answers with an empty list.
ListCatch_EmptyList == Response("list-scores", 200, "[]")

\* The catch block of GET /api/scores.
ListCatch == Response("list-scores", 500, "Failed to fetch high scores")

\* fetch rejects: the catch block answers.
ListFetchRejected(h) ==
    /\ h.pc = "list-fetch"
    /\ pending' = pending (-) One(h)
    /\ last' = Answer(ListCatch, h, StoreFailed)
    /\ UNCHANGED <<gameSessions, issued>>

\* fetch resolves: `!response.ok` throws into the catch block, otherwise the
\* handler runs up to `await response.json()`.
ListFetchResolved(h, ok) ==
    /\ h.pc = "list-fetch"
    /\ IF ~ok
       THEN /\ pending' = pending (-) One(h)
            /\ last' = Answer(ListCatch, [h EXCEPT !.ok = Bool(ok)], StoreStatus)
       ELSE /\ pending' = (pending (-) One(h))
                          (+) One([h EXCEPT !.pc = "list-json", !.ok = Bool(ok)])
            /\ UNCHANGED last
    /\ UNCHANGED <<gameSessions, issued>>

\* json() resolves: the records are relayed.
ListJsonResolved(h) ==
    /\ h.pc = "list-json"
    /\ pending' = pending (-) One(h)
    /\ last' = Answer(Response("list-scores", 200, "records"), h, StoreOutcome(h))
    /\ UNCHANGED <<gameSessions, issued>>

\* json() rejects: the catch block answers.
ListJsonRejected(h) ==
    /\ h.pc = "list-json"
    /\ pending' = pending (-) One(h)
    /\ last' = Answer(ListCatch, h, StoreUnreadable)
    /\ UNCHANGED <<gameSessions, issued>>

\* POST /api/scores runs to its 400, or up to `await fetch(...)`.
SubmitScore(body) ==
    IF ScoreFieldsMissing(body)
    THEN /\ last' = [Response("submit-score", 400, "Score and player_name are required")
                        EXCEPT !.req = body]
         /\ UNCHANGED <<gameSessions, pending, issued>>
    ELSE /\ BagCardinality(pending) < MaxInFlight
         /\ pending' = pending (+) One(ScoreHandler("submit-fetch", body, StoreRecord(body)))
         /\ UNCHANGED <<gameSessions, last, issued>>

\* The catch block of POST /api/scores.
SubmitCatch == Response("submit-score", 500, "Failed to save high score")

\* fetch rejects: the catch block answers.
SubmitFetchRejected(h) ==
    /\ h.pc = "submit-fetch"
    /\ pending' = pending (-) One(h)
    /\ last' = Answer(SubmitCatch, h, StoreFailed)
    /\ UNCHANGED <<gameSessions, issued>>

\* fetch resolves: the handler runs up to `await response.text()` when
\* `!response.ok`, up to `await response.json()` otherwise.
SubmitFetchResolved(h, ok) ==
    /\ h.pc = "submit-fetch"
    /\ pending' = (pending (-) One(h))
                  (+) One([h EXCEPT !.pc = IF ok THEN "submit-json" ELSE "submit-text",
                                    !.ok = Bool(ok)])
    /\ UNCHANGED <<gameSessions, last, issued>>

\* text() of the error reply resolves (the text is logged and an Error is
\* thrown) or rejects: either way the catch block answers.
SubmitTextSettled(h) ==
    /\ h.pc = "submit-text"
    /\ pending' = pending (-) One(h)
    /\ last' = Answer(SubmitCatch, h, StoreOutcome(h))
    /\ UNCHANGED <<gameSessions, issued>>

\* json() resolves: the created record is relayed.
SubmitJsonResolved(h) ==
    /\ h.pc = "submit-json"
    /\ pending' = pending (-) One(h)
    /\ last' = Answer(Response("submit-score", 201, "record"), h, StoreOutcome(h))
    /\ UNCHANGED <<gameSessions, issued>>

\* json() rejects: the catch block answers.
SubmitJsonRejected(h) ==
    /\ h.pc = "submit-json"
    /\ pending' = pending (-) One(h)
    /\ last' = Answer(SubmitCatch, h, StoreUnreadable)
    /\ UNCHANGED <<gameSessions, issued>>

ScoresSettle ==
    \/ \E h \in BagToSet(pending) : ListFetchRejected(h)
    \/ \E h \in BagToSet(pending), ok \in BOOLEAN : ListFetchResolved(h, ok)
    \/ \E h \in BagToSet(pending) : ListJsonResolved(h)
    \/ \E h \in BagToSet(pending) : ListJsonRejected(h)
    \/ \E h \in BagToSet(pending) : SubmitFetchRejected(h)
    \/ \E h \in BagToSet(pending), ok \in BOOLEAN : SubmitFetchResolved(h, ok)
    \/ \E h \in BagToSet(pending) : SubmitTextSettled(h)
    \/ \E h \in BagToSet(pending) : SubmitJsonResolved(h)
    \/ \E h \in BagToSet(pending) : SubmitJsonRejected(h)

NextScores ==
    \/ ListScoresReceive
    \/ \E body \in ScoreBodies : SubmitScore(body)
    \/ ScoresSettle

SpecScores == Init /\ [][NextScores]_vars

(***************************************************************************)
(* Overlapping notifications: up to MaxOverlap handlers are suspended at   *)
(* once, all of them for a completed payment of the price in the currency, *)
(* so that what differs between them is the session they name and when it  *)
(* was created.                                                             *)
(***************************************************************************)
QualifyingInputs ==
    { d \in IpnInputs :
        /\ d.payment_status = Completed
        /\ d.mc_currency = USD
        /\ d.mc_gross = Str(<<"1", ".", "9", "9">>) }

\* IpnReceive; the handler also notes (history, read by no action) whether
\* the table had the session it names when the notification arrived.
IpnReceiveOverlapping(ipnData) ==
    /\ BagCardinality(pending) < MaxOverlap
    /\ pending' = pending (+) One([pc |-> "fetch", ipnData |-> ipnData, calls |-> 1,
                                   known |-> MapHas(gameSessions, ipnData.custom)])
    /\ UNCHANGED <<gameSessions, last, issued>>

NextOverlap ==
    \/ \E level \in LevelInputs : CreateSession(level)
    \/ \E token \in TokenInputs : CheckContinue(token)
    \/ \E ipnData \in QualifyingInputs : IpnReceiveOverlapping(ipnData)
    \/ \E h \in BagToSet(pending) : IpnFetchResolved(h)
    \/ \E h \in BagToSet(pending) : IpnFetchRejected(h)
    \/ \E h \in BagToSet(pending) : IpnTextRejected(h)
    \/ \E h \in BagToSet(pending), r \in VerifierReplies : IpnTextResolved(h, r)

SpecOverlap == Init /\ [][NextOverlap]_vars

(***************************************************************************)
(* The three handlers that call another service: the notification handler  *)
(* (the verifier) and the two score handlers (the store).                   *)
(***************************************************************************)
NextRelay ==
    \/ \E ipnData \in IpnInputs : IpnReceive(ipnData)
    \/ \E h \in BagToSet(pending) : IpnFetchResolved(h)
    \/ \E h \in BagToSet(pending) : IpnFetchRejected(h)
    \/ \E h \in BagToSet(pending) : IpnTextRejected(h)
    \/ \E h \in BagToSet(pending), r \in VerifierReplies : IpnTextResolved(h, r)
    \/ NextScores

SpecRelay == Init /\ [][NextRelay]_vars

\* The handlers of POST /api/scores that read the body of an error reply.
FailedSubmits ==
    { [ScoreHandler("submit-text", body, StoreRecord(body)) EXCEPT !.ok = Bool(FALSE)] :
        body \in {b \in ScoreBodies : ~ScoreFieldsMissing(b)} }

\* The read of an error reply's body settles (fetch gives up on a stalled
\* body), and the event loop then runs the handler's continuation.
SpecScoresLive ==
    /\ SpecScores
    /\ \A h \in FailedSubmits :
          WF_vars(h \in BagToSet(pending) /\ SubmitTextSettled(h))

(***************************************************************************)
(* Vocabulary of the properties.  These describe a step or a request from  *)
(* outside: none of them is used by an action.                              *)
(***************************************************************************)
\* This step is handler h of POST /api/paypal-ipn sending its response.
IpnAnswers(h) ==
    /\ last'.op = "paypal-ipn"
    /\ pending' # pending
    /\ h \in BagToSet(pending)
    /\ pending' = pending (-) One(h)

\* ... after the verifier replied `reply`
IpnAnswersReply(h, reply) == last'.reply = reply /\ h.pc = "text" /\ IpnAnswers(h)

\* ... after the verifier call threw
IpnAnswersThrow(h) == last'.reply = NoReply /\ IpnAnswers(h)

StatusIsCompleted(d) == d.payment_status = Completed
HasPriceAndCurrency(d) == d.mc_currency = USD /\ d.mc_gross \in PriceInputs
NamesSession(d, sessions) == d.custom.t = "string" /\ d.custom.s \in DOMAIN sessions

IsNonNegativeInteger(v) == v.t = "number" /\ v.e = 0 /\ v.m >= 0

Purchased(sessions, tok) == tok \in DOMAIN sessions /\ sessions[tok].hasPurchasedContinue

(***************************************************************************)
(* C1.  For every valid level (any non-negative integer, 0 included)        *)
(* create_session succeeds and returns a token that check_continue, issued  *)
(* right after, resolves to purchased = false and the same level; and       *)
(* create_session answers 400 only when level is absent.                    *)
(* The code answers 400 to level 0: `!level` is true of 0.                  *)
(***************************************************************************)
C1_CreateThenCheck ==
    last.op = "create-session" =>
        /\ IsNonNegativeInteger(last.level) =>
              /\ last.status = 200
              /\ last.token.t = "string"
              /\ LET r == CheckContinueResponse(gameSessions, last.token.s)
                 IN  r.status = 200 /\ r.purchased = FALSE /\ r.level = last.level
        /\ last.status = 400 => last.level = Undefined

(***************************************************************************)
(* C2.  A notification answered after the verifier reply "VERIFIED", with  *)
(* payment_status Completed, the configured currency and price and a custom *)
(* field naming an existing session, is answered 200 with that session's    *)
(* flag set; and a flag that check_continue reports as true is reported as  *)
(* true after every later step.                                             *)
(***************************************************************************)
C2_VerifiedPaymentGrants ==
    [][ /\ \A h \in BagToSet(pending) :
              ( /\ IpnAnswersReply(h, "VERIFIED")
                /\ StatusIsCompleted(h.ipnData)
                /\ HasPriceAndCurrency(h.ipnData)
                /\ NamesSession(h.ipnData, gameSessions) )
              => /\ last'.status = 200
                 /\ Purchased(gameSessions', h.ipnData.custom.s)
                 /\ CheckContinueResponse(gameSessions', h.ipnData.custom.s).purchased
        /\ gameSessions' # gameSessions =>
              \A tok \in TokenInputs :
                  CheckContinueResponse(gameSessions, tok).purchased
                  => CheckContinueResponse(gameSessions', tok).purchased
      ]_vars

\* a check_continue has reported a purchased session
C2_Witness ==
    /\ last.op = "check-continue"
    /\ last.status = 200
    /\ last.purchased = TRUE

(***************************************************************************)
(* C3.  When the verifier's reply is anything but "VERIFIED", the handler  *)
(* answers 400 and the session table is unchanged, whatever the            *)
(* notification holds.                                                      *)
(***************************************************************************)
C3_UnverifiedChangesNothing ==
    [][ \A h \in BagToSet(pending), reply \in VerifierReplies \ {"VERIFIED"} :
            IpnAnswersReply(h, reply)
            => /\ gameSessions' = gameSessions
               /\ last'.status = 400
      ]_vars

\* an unverified notification was answered while an unpurchased session exists
C3_Witness ==
    /\ last.op = "paypal-ipn"
    /\ last.reply \in VerifierReplies \ {"VERIFIED"}
    /\ last.status = 400
    /\ \E tok \in DOMAIN gameSessions : ~gameSessions[tok].hasPurchasedContinue

(***************************************************************************)
(* C4.  Once a session's purchased flag is true it stays true: no step of  *)
(* create_session, handle_payment_notification or check_continue resets it. *)
(***************************************************************************)
C4_PurchasedNeverReverts ==
    [][ \A tok \in Tokens :
            Purchased(gameSessions, tok) => Purchased(gameSessions', tok) ]_vars

\* a session was created after another one had been purchased
C4_Witness ==
    /\ last.op = "create-session"
    /\ last.status = 200
    /\ \E tok \in DOMAIN gameSessions : gameSessions[tok].hasPurchasedContinue

(***************************************************************************)
(* C5.  A verified notification whose payment_status is not "Completed"    *)
(* leaves every session as it was (a flag that was false stays false) and   *)
(* is answered 200.                                                         *)
(***************************************************************************)
C5_NotCompletedIsIgnored ==
    [][ \A h \in BagToSet(pending) :
            (IpnAnswersReply(h, "VERIFIED") /\ ~StatusIsCompleted(h.ipnData))
            => /\ gameSessions' = gameSessions
               /\ last'.status = 200
      ]_vars

\* such a notification was answered while an unpurchased session exists
C5_Witness ==
    /\ last.op = "paypal-ipn"
    /\ last.reply = "VERIFIED"
    /\ last.body = "Payment not completed"
    /\ \E tok \in DOMAIN gameSessions : ~gameSessions[tok].hasPurchasedContinue

(***************************************************************************)
(* C6.  check_continue on a token create_session never returned answers    *)
(* 404 and carries no session, also when the token is the custom field of   *)
(* a notification.                                                          *)
(***************************************************************************)
C6_UnknownTokenNotFound ==
    /\ \A tok \in TokenInputs \ issued :
          LET r == CheckContinueResponse(gameSessions, tok)
          IN  r.status = 404 /\ r.level = Undefined /\ r.purchased = FALSE
    /\ (last.op = "check-continue" /\ last.status = 200) => last.token.s \in issued

\* a check of a token that was never issued, while a notification names it
C6_Witness ==
    /\ last.op = "check-continue"
    /\ last.status = 404
    /\ last.token.s \notin issued
    /\ \E h \in BagToSet(pending) : h.ipnData.custom = last.token
    /\ gameSessions # <<>>

(***************************************************************************)
(* C8.  A verified, Completed notification with the configured currency    *)
(* and price whose custom token is missing or names no session is answered  *)
(* 400; no session is created and none is changed.                          *)
(***************************************************************************)
C8_UnknownSessionRejected ==
    [][ \A h \in BagToSet(pending) :
            ( /\ IpnAnswersReply(h, "VERIFIED")
              /\ StatusIsCompleted(h.ipnData)
              /\ HasPriceAndCurrency(h.ipnData)
              /\ ~NamesSession(h.ipnData, gameSessions) )
            => /\ last'.status = 400
               /\ gameSessions' = gameSessions
      ]_vars

\* such a notification was answered while a session exists
C8_Witness ==
    /\ last.op = "paypal-ipn"
    /\ last.reply = "VERIFIED"
    /\ last.status = 400
    /\ last.body = "Invalid session"
    /\ gameSessions # <<>>

(***************************************************************************)
(* C9.  For a verified notification the checks run in the order            *)
(* payment_status, currency and amount, session token, and the first one    *)
(* that fails decides the response: a wrong status or a wrong currency or   *)
(* amount gives 200 and no change even when the token is unknown; 400 is    *)
(* answered only when both pass and the token is unknown.                   *)
(***************************************************************************)
C9_ChecksInOrder ==
    [][ \A h \in BagToSet(pending) :
            IpnAnswersReply(h, "VERIFIED")
            => IF ~StatusIsCompleted(h.ipnData)
               THEN /\ last'.status = 200
                    /\ last'.body = "Payment not completed"
                    /\ gameSessions' = gameSessions
               ELSE IF ~HasPriceAndCurrency(h.ipnData)
               THEN /\ last'.status = 200
                    /\ last'.body = "Invalid payment amount or currency"
                    /\ gameSessions' = gameSessions
               ELSE IF ~NamesSession(h.ipnData, gameSessions)
               THEN /\ last'.status = 400
                    /\ gameSessions' = gameSessions
               ELSE last'.status = 200
      ]_vars

\* a wrong amount or currency was answered 200 when no token could be known
C9_Witness ==
    /\ last.op = "paypal-ipn"
    /\ last.reply = "VERIFIED"
    /\ last.status = 200
    /\ last.body = "Invalid payment amount or currency"
    /\ gameSessions = <<>>

(***************************************************************************)
(* C10.  When the verification call throws (fetch rejects, or reading the  *)
(* reply fails) the handler answers 500 and the session table is as it was. *)
(***************************************************************************)
C10_ThrowAnswers500 ==
    [][ \A h \in BagToSet(pending) :
            IpnAnswersThrow(h)
            => /\ last'.status = 500
               /\ gameSessions' = gameSessions
      ]_vars

\* the catch block answered while a session exists
C10_Witness ==
    /\ last.op = "paypal-ipn"
    /\ last.reply = NoReply
    /\ last.status = 500
    /\ gameSessions # <<>>

(***************************************************************************)
(* C11.  Every session in the table has a level that is a non-negative     *)
(* integer, whatever level the accepted request carried.                    *)
(* The code stores parseInt(level, 10) of every truthy level: NaN for a    *)
(* string without leading digits, a negative integer for a negative level. *)
(***************************************************************************)
C11_StoredLevelIsNonNegativeInteger ==
    \A tok \in DOMAIN gameSessions : IsNonNegativeInteger(gameSessions[tok].level)

(***************************************************************************)
(* C12.  After every step the tokens of the table are exactly the tokens   *)
(* create_session has returned so far; no step takes a token out of the    *)
(* table, and a step that answers a check_continue leaves the whole table  *)
(* as it was.                                                               *)
(***************************************************************************)
C12_TableHoldsIssuedTokens ==
    [][ /\ DOMAIN gameSessions' = issued'
        /\ DOMAIN gameSessions \subseteq DOMAIN gameSessions'
        /\ last'.op = "check-continue" => gameSessions' = gameSessions
      ]_vars

\* a check_continue of a purchased session was answered while the other
\* token the model has was never issued and a notification is in flight
C12_Witness ==
    /\ last.op = "check-continue"
    /\ last.status = 200
    /\ last.purchased = TRUE
    /\ issued # {} /\ issued # Tokens
    /\ pending # EmptyBag

\* the handlers of POST /api/scores that have forwarded their request
SubmitPcs == {"submit-fetch", "submit-text", "submit-json"}
Forwarding == {h \in BagToSet(pending) : h.pc \in SubmitPcs}
Supplied(v) == v # Undefined

(***************************************************************************)
(* C13.  submit_score answers 400, having made no store call, exactly when *)
(* score or player_name is absent from the request; a request that holds   *)
(* both (score 0 included) has made one store call.                         *)
(* The code answers 400 to score 0: `!score` is true of 0.                  *)
(***************************************************************************)
C13_RejectedExactlyWhenAbsent ==
    /\ (last.op = "submit-score" /\ last.status = 400)
       => /\ ~Supplied(last.req.score) \/ ~Supplied(last.req.player_name)
          /\ last.calls = 0
    /\ \A h \in Forwarding :
          /\ Supplied(h.req.score) /\ Supplied(h.req.player_name)
          /\ h.calls = 1

(***************************************************************************)
(* C14.  The request forwarded to the store carries the caller's score and *)
(* player_name, level 1 when the caller sent no level and the caller's      *)
(* level when it sent one (0 included).                                     *)
(* The code forwards `level || 1`, which is 1 for level 0.                  *)
(***************************************************************************)
C14_ForwardsCallerFields ==
    \A h \in Forwarding :
        /\ h.sent.score = h.req.score
        /\ h.sent.player_name = h.req.player_name
        /\ h.sent.level = IF Supplied(h.req.level) THEN h.req.level ELSE Num(1, 0)

ScoreOps == {"list-scores", "submit-score"}
OpOf(h) == IF h.pc \in SubmitPcs THEN "submit-score" ELSE "list-scores"
GenericFailure(response) ==
    /\ response.status = 500
    /\ response.body = IF response.op = "list-scores"
                       THEN "Failed to fetch high scores"
                       ELSE "Failed to save high score"

(***************************************************************************)
(* C15.  For list_scores and submit_score: a response that follows a store *)
(* call that was rejected or came back with a non-success status is the    *)
(* generic 500; a 200 (list) or 201 (submit) follows a successful store    *)
(* reply only; the step that ends a suspended handler sends that request's *)
(* response, so each request is answered once; and a handler reading the   *)
(* body of an error reply is eventually answered with the 500.             *)
(***************************************************************************)
C15_StoreFailureAnswered500 ==
    /\ [](last.op \in ScoreOps =>
            /\ last.reply \in {StoreFailed, StoreStatus, StoreUnreadable}
               => GenericFailure(last)
            /\ last.status \in {200, 201}
               => /\ last.reply = StoreOk
                  /\ last.status = IF last.op = "list-scores" THEN 200 ELSE 201
            /\ last.calls = 0 => last.status = 400)
    /\ [][ /\ \A h \in BagToSet(pending) :
                 pending' = pending (-) One(h)
                 => /\ last'.op = OpOf(h) /\ last'.req = h.req
                    /\ last'.calls = 1
                    /\ h.ok # Bool(TRUE) => GenericFailure(last')
           /\ (last' # last /\ last'.status # 400)
              => BagCardinality(pending') = BagCardinality(pending) - 1
         ]_vars
    /\ \A h \in FailedSubmits :
          h \in BagToSet(pending) ~> last = Answer(SubmitCatch, h, StoreStatus)

\* a submit_score has been answered 500 after the store's error reply
C15_Witness ==
    /\ last.op = "submit-score"
    /\ last.status = 500
    /\ last.reply = StoreStatus

(***************************************************************************)
(* C16.  Every request has issued its outbound call once when it is        *)
(* answered (a submit_score answered 400 has issued none) and every        *)
(* suspended handler has issued one; the step that issues the call sends   *)
(* no response; and a response of a request that made a call is sent by    *)
(* the step that ends its suspended handler, that is after the call         *)
(* settled.                                                                 *)
(***************************************************************************)
C16_OneCallPerRequest ==
    [][ /\ \A h \in BagToSet(pending') : h.calls = 1
        /\ last'.op \in {"paypal-ipn", "list-scores"} => last'.calls = 1
        /\ last'.op = "submit-score"
           => last'.calls = IF last'.status = 400 THEN 0 ELSE 1
        /\ BagCardinality(pending') > BagCardinality(pending) => last' = last
        /\ (last' # last /\ last'.calls > 0)
           => \E h \in BagToSet(pending) : pending' = pending (-) One(h)
      ]_vars

\* a notification was answered after its verifier call failed, and a
\* score request is waiting for the store
C16_Witness ==
    /\ last.op = "paypal-ipn"
    /\ last.status = 500
    /\ last.calls = 1
    /\ \E h \in BagToSet(pending) : h.pc = "submit-fetch"

(***************************************************************************)
(* C17.  A session's flag becomes true only in the step in which a         *)
(* notification with payment_status Completed, the configured currency and *)
(* price and that session's token in custom is answered after the verifier *)
(* reply "VERIFIED" (sessions start with the flag false, so a true flag    *)
(* always has such a notification behind it); and a step that leaves a     *)
(* notification waiting for the verifier changes no session.               *)
(***************************************************************************)
C17_PurchasedOnlyAfterVerifiedPayment ==
    [][ /\ gameSessions' # gameSessions =>
              \A tok \in DOMAIN gameSessions' :
                  (Purchased(gameSessions', tok) /\ ~Purchased(gameSessions, tok))
                  => \E h \in BagToSet(pending) :
                        /\ IpnAnswersReply(h, "VERIFIED")
                        /\ StatusIsCompleted(h.ipnData)
                        /\ HasPriceAndCurrency(h.ipnData)
                        /\ h.ipnData.custom = Str(tok)
        /\ (pending' # pending /\ BagCardinality(pending') >= BagCardinality(pending))
           => gameSessions' = gameSessions /\ last' = last
      ]_vars

\* a qualifying notification for an existing session waits for the verifier's
\* reply and the session's flag is still false, after a check_continue said so
C17_Witness ==
    /\ last.op = "check-continue"
    /\ last.status = 200
    /\ last.purchased = FALSE
    /\ \E h \in BagToSet(pending) :
          /\ h.pc = "text"
          /\ StatusIsCompleted(h.ipnData)
          /\ HasPriceAndCurrency(h.ipnData)
          /\ last.token = h.ipnData.custom
          /\ NamesSession(h.ipnData, gameSessions)
          /\ ~Purchased(gameSessions, h.ipnData.custom.s)

(***************************************************************************)
(* C18.  With notification handlers overlapping each other and the session *)
(* handlers: when a qualifying notification is answered after "VERIFIED",  *)
(* the table of that very step decides.  If it has the session named, the  *)
(* answer is 200 and the flag is true afterwards, whether the session was  *)
(* there when the notification arrived or was created since, and whether   *)
(* or not another notification set the flag meanwhile; if it has not, the  *)
(* answer is 400 and nothing is written.  No answer adds a token to the    *)
(* table, and a flag that is true stays true.                               *)
(***************************************************************************)
C18_CheckAndGrantAreOneStep ==
    [][ /\ \A h \in BagToSet(pending) :
              ( /\ IpnAnswersReply(h, "VERIFIED")
                /\ StatusIsCompleted(h.ipnData)
                /\ HasPriceAndCurrency(h.ipnData) )
              => IF NamesSession(h.ipnData, gameSessions)
                 THEN /\ last'.status = 200
                      /\ Purchased(gameSessions', h.ipnData.custom.s)
                 ELSE /\ last'.status = 400
                      /\ gameSessions' = gameSessions
        /\ last'.op = "paypal-ipn" => DOMAIN gameSessions' = DOMAIN gameSessions
        /\ \A tok \in DOMAIN gameSessions :
              Purchased(gameSessions, tok) => Purchased(gameSessions', tok)
      ]_vars

\* two notifications for the same session wait for the verifier's reply at
\* once, and the session was created after one of them arrived
C18_Witness ==
    \E h1, h2 \in BagToSet(pending) :
        /\ h1.pc = "text" /\ h2.pc = "text"
        /\ h1.ipnData.custom = h2.ipnData.custom
        /\ NamesSession(h1.ipnData, gameSessions)
        /\ ~h1.known /\ h2.known
        /\ ~Purchased(gameSessions, h1.ipnData.custom.s)

(***************************************************************************)
(* C19.  A qualifying notification answered after "VERIFIED" for a session *)
(* that exists is answered 200 OK on every delivery, and a delivery that   *)
(* finds the flag already true (the same notification delivered again)     *)
(* leaves the table exactly as it was; no step turns a flag from true to   *)
(* false, so a flag changes value at most once.                             *)
(***************************************************************************)
C19_RedeliveryIsIdempotent ==
    [][ /\ \A h \in BagToSet(pending) :
              ( /\ IpnAnswersReply(h, "VERIFIED")
                /\ StatusIsCompleted(h.ipnData)
                /\ HasPriceAndCurrency(h.ipnData)
                /\ NamesSession(h.ipnData, gameSessions) )
              => /\ last'.status = 200 /\ last'.body = "OK"
                 /\ Purchased(gameSessions, h.ipnData.custom.s)
                    => gameSessions' = gameSessions
        /\ \A tok \in DOMAIN gameSessions :
              gameSessions[tok].hasPurchasedContinue
              => tok \in DOMAIN gameSessions' /\ gameSessions'[tok].hasPurchasedContinue
      ]_vars

\* a delivery was answered OK and the same notification waits for the
\* verifier's reply once more, its session's flag being true
C19_Witness ==
    /\ last.op = "paypal-ipn"
    /\ last.body = "OK"
    /\ \E h \in BagToSet(pending) :
          /\ h.pc = "text"
          /\ h.known
          /\ Purchased(gameSessions, h.ipnData.custom.s)
          /\ \A tok \in DOMAIN gameSessions :
                Purchased(gameSessions, tok) => Str(tok) = h.ipnData.custom

(***************************************************************************)
(* C20.  The step that answers a notification changes at most the flag of  *)
(* the session its custom field names: that session's level, and every     *)
(* other session, are as before; and no step changes the level of a        *)
(* session, so check_continue reports for a token, as long as the table    *)
(* has it, the level stored when the session was created.                  *)
(***************************************************************************)
C20_GrantTouchesOnlyTheFlag ==
    [][ /\ \A h \in BagToSet(pending) :
              IpnAnswers(h)
              => /\ DOMAIN gameSessions' = DOMAIN gameSessions
                 /\ \A tok \in DOMAIN gameSessions :
                       /\ gameSessions'[tok].level = gameSessions[tok].level
                       /\ Str(tok) # h.ipnData.custom
                          => gameSessions'[tok] = gameSessions[tok]
        /\ gameSessions' # gameSessions =>
              \A tok \in DOMAIN gameSessions :
                  /\ tok \in DOMAIN gameSessions'
                  /\ CheckContinueResponse(gameSessions', tok).level
                       = CheckContinueResponse(gameSessions, tok).level
      ]_vars

\* a check_continue reports a purchased session with the level it was
\* created with, while another session exists with its flag false
C20_Witness ==
    /\ last.op = "check-continue"
    /\ last.status = 200
    /\ last.purchased = TRUE
    /\ last.level = Num(2, 0)
    /\ \E tok \in DOMAIN gameSessions :
          /\ Str(tok) # last.token
          /\ ~Purchased(gameSessions, tok)
    /\ pending = EmptyBag

====
